---- MODULE Spec2Model ----
(***************************************************************************)
(* Model of src/ha-continuum-sub.py: the continuum-subtraction window      *)
(* (SirilCSWindow), its scale-factor estimator (find_min, compute_c, aad)  *)
(* and its compositor (on_blend).                                          *)
(*                                                                         *)
(* Numbers.  The program computes in floating point; the model computes    *)
(* the same expressions exactly, on integers carrying a denominator:       *)
(*   - a pixel of an image img is img.rows[i][j] / img.den;                *)
(*   - a grid value c is num / den (den = 11 coarse, 429 fine);            *)
(*   - an AAD value is carried multiplied by n*n*2*den*img.den, n the      *)
(*     number of elements averaged, and NaN is the value -1;               *)
(*   - a fitted vertex s0 and the returned c are carried times S0Scale.    *)
(* Floating-point rounding is not modelled.                                *)
(***************************************************************************)
EXTENDS Integers, Sequences, FiniteSets, TLC

VARIABLES
    r_file, g_file, b_file,          \* self.r_file, self.g_file, self.b_file
    ha_file, sii_file, oiii_file,    \* self.ha_file, self.sii_file, self.oiii_file
    emission_file, component_file,   \* self.emission_file, self.component_file
    cs_file,                         \* self.cs_file
    emission_combo,                  \* self.emission_combo.currentText()
    c_slider, q_slider,              \* self.c_slider.value(), self.q_slider.value()
    red_slider, green_slider, blu_slider,
    alive,                           \* the window is running (no unhandled exception yet)
    disk,                            \* the FITS files: path -> image
    host_image,                      \* the file loaded in the host ("" when none)
    host_selection,                  \* the host's selection: <<>> (None) or <<x, y, w, h>>
    last,                            \* the last handler run and how it ended
    log,                             \* what the last handler did, in order
    budget,                          \* user inputs made so far
    fn_in, fn_out                    \* input and result of a direct call of a pure function

vars == <<r_file, g_file, b_file, ha_file, sii_file, oiii_file, emission_file,
          component_file, cs_file, emission_combo, c_slider, q_slider, red_slider,
          green_slider, blu_slider, alive, disk, host_image, host_selection,
          last, log, budget, fn_in, fn_out>>

(***************************************************************************)
(* Arithmetic helpers                                                      *)
(***************************************************************************)
Abs(x) == IF x < 0 THEN -x ELSE x
Min2(a, b) == IF a <= b THEN a ELSE b
Max2(a, b) == IF a >= b THEN a ELSE b

RECURSIVE SeqSum(_)
SeqSum(s) == IF s = <<>> THEN 0 ELSE s[1] + SeqSum(Tail(s))

RECURSIVE Flatten(_)
\* the elements of a 2-D array, row by row
Flatten(rows) == IF rows = <<>> THEN <<>> ELSE rows[1] \o Flatten(Tail(rows))

RECURSIVE GCD(_, _)
GCD(a, b) == IF b = 0 THEN a ELSE GCD(b, a % b)

RECURSIVE SeqGCD(_, _)
\* the gcd of g and of the absolute values of s
SeqGCD(g, s) == IF s = <<>> THEN g
                ELSE SeqGCD(GCD(g, IF s[1] < 0 THEN -s[1] ELSE s[1]), Tail(s))

\* NaN, as an AAD value (every real AAD is >= 0)
NaN == -1

(***************************************************************************)
(* Images and numpy slicing                                                *)
(***************************************************************************)
Img(d, rws) == [ok |-> TRUE, den |-> d, rows |-> rws]
\* the same array with its denominator in lowest terms, so that equal arrays
\* are equal records
Normal(d, rws) ==
    LET g == SeqGCD(d, Flatten(rws))
    IN  Img(d \div g, [i \in 1..Len(rws) |-> [j \in 1..Len(rws[i]) |-> rws[i][j] \div g]])
\* a path fits.getdata cannot read (missing, or not a FITS file)
Unreadable == [ok |-> FALSE, den |-> 1, rows |-> <<>>]

\* numpy .shape of a 2-D array
Shape(rows) == <<Len(rows), IF rows = <<>> THEN 0 ELSE Len(rows[1])>>

\* a slice bound, as Python normalises it against a length n
PyIdx(i, n) == IF i < 0 THEN Max2(i + n, 0) ELSE Min2(i, n)

\* im[y:y+h, x:x+w]
slc(rows, selection) ==
    LET x == selection[1]
        y == selection[2]
        w == selection[3]
        h == selection[4]
        H == Shape(rows)[1]
        W == Shape(rows)[2]
        rlo == PyIdx(y, H)
        rhi == Max2(PyIdx(y + h, H), rlo)
        clo == PyIdx(x, W)
        chi == Max2(PyIdx(x + w, W), clo)
    IN  [i \in 1..(rhi - rlo) |-> [j \in 1..(chi - clo) |-> rows[rlo + i][clo + j]]]

(***************************************************************************)
(* Statistics                                                              *)
(***************************************************************************)
RECURSIVE Insert(_, _)
Insert(v, s) == IF s = <<>> THEN <<v>>
                ELSE IF v <= s[1] THEN <<v>> \o s
                ELSE <<s[1]>> \o Insert(v, Tail(s))

RECURSIVE Sorted(_)
Sorted(s) == IF s = <<>> THEN <<>> ELSE Insert(s[1], Sorted(Tail(s)))

\* np.median, times 2 (the mean of the two middle elements of an even count)
Median2(s) ==
    LET n == Len(s)
        t == Sorted(s)
    IN  IF n % 2 = 1 THEN 2 * t[(n + 1) \div 2]
        ELSE t[n \div 2] + t[n \div 2 + 1]

\* aad without its centring: mean(|data|), times n*n
aadUncentred(data) ==
    IF Len(data) = 0 THEN NaN
    ELSE SeqSum([k \in 1..Len(data) |-> Abs(Len(data) * data[k])])
\* aad(data) = mean(|data - mean(data)|), times n*n for n = Len(data);
\* the mean of no element is NaN
aad(data) ==
    LET n == Len(data)
        total == SeqSum(data)
    IN  IF n = 0 THEN NaN
        ELSE SeqSum([k \in 1..n |-> Abs(n * data[k] - total)])

\* nb - (co - c_median) * sf for sf = num / den and c_median = med2 / 2,
\* times 2 * den, element by element
Subtracted(nb, co, med2, num, den) ==
    [k \in 1..Len(nb) |-> 2 * den * nb[k] - (2 * co[k] - med2) * num]

RECURSIVE SeqMin(_)
SeqMin(s) == IF Len(s) = 1 THEN s[1] ELSE Min2(s[1], SeqMin(Tail(s)))

RECURSIVE FirstIndex(_, _, _)
\* the first index k >= from with s[k] = v
FirstIndex(s, v, from) == IF s[from] = v THEN from ELSE FirstIndex(s, v, from + 1)

HasNaN(vals) == \E k \in 1..Len(vals) : vals[k] = NaN

\* np.min of a list of AAD values: NaN when any is NaN
NpMin(vals) == IF HasNaN(vals) THEN NaN ELSE SeqMin(vals)

\* np.argmin (0-based): the first index of the minimum, the first NaN when
\* there is one
NpArgMinLast(vals) ==
    LET m == NpMin(vals)
    IN  CHOOSE k \in 0..(Len(vals) - 1) :
            /\ vals[k + 1] = m
            /\ \A j \in (k + 2)..Len(vals) : vals[j] # m
NpArgMin(vals) == FirstIndex(vals, NpMin(vals), 1) - 1

(***************************************************************************)
(* The two grids                                                           *)
(***************************************************************************)
\* np.linspace(-1, 5, 12): its ends and its length
CoarseLo == -1
CoarseHi == 5
CoarseN == 12
\* np.linspace(min_val, max_val, 40) over approx_min -/+ 1.0
FineN == 40
FineHalfWidth == 1

CoarseDen == CoarseN - 1
FineDen == CoarseDen * (FineN - 1)

\* np.linspace(-1, 5, 12)[i], times CoarseDen
CoarseNum(i) == CoarseLo * CoarseDen + i * (CoarseHi - CoarseLo)

\* np.linspace(approx_min - 1, approx_min + 1, 40)[j], times FineDen, for
\* approx_min the coarse grid value of index i0
FineNum(i0, j) ==
    (CoarseNum(i0) - FineHalfWidth * CoarseDen) * (FineN - 1)
        + j * 2 * FineHalfWidth * CoarseDen

\* scale_factors of the fine loop (each times FineDen), in loop order
FineGridWindowOff(i0) == [k \in 1..FineN |-> FineNum(i0, k - 1) + FineHalfWidth * FineDen]
FineGrid(i0) == [k \in 1..FineN |-> FineNum(i0, k - 1)]

\* scale_factors of the coarse loop (each times CoarseDen), in loop order
CoarseGrid == [k \in 1..CoarseN |-> CoarseNum(k - 1)]

(***************************************************************************)
(* Progress sink and event log                                             *)
(***************************************************************************)
Ev(e, m, a, b) == [ev |-> e, msg |-> m, num |-> a, den |-> b]

\* i / (len(scale_factors) - 1), as <<numerator, denominator>>
ProgressFractionOff(i, n) == <<i, n>>
ProgressFraction(i, n) == <<i, n - 1>>

\* one grid loop: per sample, the AAD evaluation and then update_progress;
\* after the loop, reset_progress
GridLoopLogShort(msg, n) ==
    [k \in 1..(2 * n - 1) |->
        IF k = 2 * n - 1 THEN Ev("reset_progress", "", 0, 1)
        ELSE IF k % 2 = 1 THEN Ev("aad", msg, (k - 1) \div 2, 1)
        ELSE Ev("update_progress", msg,
                ProgressFraction((k - 2) \div 2, n)[1],
                ProgressFraction((k - 2) \div 2, n)[2])]
GridLoopLogNoReset(msg, n) ==
    [k \in 1..(2 * n) |->
        IF k % 2 = 1 THEN Ev("aad", msg, (k - 1) \div 2, 1)
        ELSE Ev("update_progress", msg,
                ProgressFraction((k - 2) \div 2, n)[1],
                ProgressFraction((k - 2) \div 2, n)[2])]
GridLoopLog(msg, n) ==
    [k \in 1..(2 * n + 1) |->
        IF k = 2 * n + 1 THEN Ev("reset_progress", "", 0, 1)
        ELSE IF k % 2 = 1 THEN Ev("aad", msg, (k - 1) \div 2, 1)
        ELSE Ev("update_progress", msg,
                ProgressFraction((k - 2) \div 2, n)[1],
                ProgressFraction((k - 2) \div 2, n)[2])]

CoarseMsg == "Coarse bounds check..."
FineMsg == "Optimizing continuum subtraction..."

(***************************************************************************)
(* find_min and compute_c                                                  *)
(***************************************************************************)
\* the 12 coarse AAD values (each times n*n*2*CoarseDen)
CoarseValues(nb, co, med2) ==
    LET scale_factors == CoarseGrid
    IN  [k \in 1..CoarseN |-> aad(Subtracted(nb, co, med2, scale_factors[k], CoarseDen))]

\* find_min: the index of the coarse grid value it returns
find_min(nb, co, med2) == NpArgMin(CoarseValues(nb, co, med2))

\* the 40 fine AAD values (each times n*n*2*FineDen)
FineValues(nb, co, med2, i0) ==
    LET scale_factors == FineGrid(i0)
    IN  [k \in 1..FineN |-> aad(Subtracted(nb, co, med2, scale_factors[k], FineDen))]

\* the c slider counts 1/10000ths: c_slider.value() / 10000.0
SliderScale == 10000
\* the scale of the returned vertex and scale factor: a tenth of a slider step
S0Scale == 10 * SliderScale

\* np.clip(s0_opt, 0, 1)
ClipOff(s0) == s0
Clip(s0) == IF s0 < 0 THEN 0 ELSE IF s0 > S0Scale THEN S0Scale ELSE s0

\* the vertices a converged fit may report (times S0Scale), before the bounds
FitVertices == {0, 33345, 100000, 150000, 300000}

\* curve_fit(smooth_v, scale_factors, aad_values, p0, bounds=(lb, ub)) of the
\* library: why it raises ValueError on its inputs ("" when it accepts them)
\*   lb = [-1, 0, 0, 0], ub = [inf, 2*max_val, inf, inf], p0 = [A0, s0_0, 0.01, B0]
FitInputError(n, i0, vals) ==
    LET K == n * n * 2 * FineDen
        jmin == NpArgMin(vals)
        ub429 == 2 * (CoarseNum(i0) + FineHalfWidth * CoarseDen) * (FineN - 1)
    IN  IF \E k \in 1..FineN : vals[k] = NaN THEN "nonfinite"
        ELSE IF 0 >= ub429 THEN "bounds"
        ELSE IF \/ vals[FineN] - vals[1] < -1 * (2 * FineHalfWidth) * K  \* A0 < -1
                \/ FineNum(i0, jmin) < 0                                 \* s0_0 < 0
                \/ FineNum(i0, jmin) > ub429                             \* s0_0 > ub
                \/ NpMin(vals) < 0                                       \* B0 < 0
             THEN "x0_infeasible"
        ELSE ""

\* what curve_fit may do: raise on its inputs, fail to converge (RuntimeError),
\* or return a vertex within the bounds
curve_fit(n, i0, vals) ==
    IF FitInputError(n, i0, vals) # ""
    THEN {[fit |-> "raise", why |-> FitInputError(n, i0, vals), s0 |-> 0]}
    ELSE {[fit |-> "raise", why |-> "no_convergence", s0 |-> 0]}
         \cup {[fit |-> "ok", why |-> "", s0 |-> s] :
                 s \in {t \in FitVertices :
                          t * CoarseDen <= 2 * (CoarseNum(i0) + FineHalfWidth * CoarseDen) * S0Scale}}

\* the caller's two arrays as they would be had the continuum been recentred
\* in place through its view (co -= c_median)
SourcesInPlace(narrowband_image, continuum_image, selection, med2) ==
    <<narrowband_image,
      [i \in 1..Len(continuum_image) |-> [j \in 1..Len(continuum_image[i]) |->
          IF /\ selection[2] < i /\ i <= selection[2] + selection[4]
             /\ selection[1] < j /\ j <= selection[1] + selection[3]
          THEN 2 * continuum_image[i][j] - med2
          ELSE continuum_image[i][j]]]>>
\* the caller's two arrays when compute_c returns.  slc takes views of them,
\* and every expression on the views (co - c_median, * sf, nb - ...) allocates
\* its result: nothing is written through a view.
Sources(narrowband_image, continuum_image, selection, med2) ==
    <<narrowband_image, continuum_image>>

\* compute_c as it would be with the coarse minimum kept across calls: once a
\* CS image exists the coarse search is skipped
compute_c_cached(narrowband_image, continuum_image, selection, med2) ==
    LET nb == Flatten(slc(narrowband_image, selection))
        co == Flatten(slc(continuum_image, selection))
        i0 == IF cs_file = "" THEN find_min(nb, co, med2) ELSE 0
        vals == FineValues(nb, co, med2, i0)
    IN  {[kind |-> IF f.fit = "ok" THEN "return" ELSE "raise",
          why |-> f.why,
          s0 |-> f.s0,
          c |-> IF f.fit = "ok" THEN Clip(f.s0) ELSE 0,
          i0 |-> i0,
          jmin |-> NpArgMin(vals),
          coarse |-> [x |-> CoarseGrid, y |-> CoarseValues(nb, co, med2)],
          xdata |-> FineGrid(i0),
          ydata |-> vals,
          sources |-> Sources(narrowband_image, continuum_image, selection, med2)] :
             f \in curve_fit(Len(nb), i0, vals)}
\* compute_c: every way it can end.  A raise of curve_fit is not caught.
\* xdata and ydata are the two sequences handed to curve_fit.
compute_c(narrowband_image, continuum_image, selection, med2) ==
    LET nb == Flatten(slc(narrowband_image, selection))
        co == Flatten(slc(continuum_image, selection))
        i0 == find_min(nb, co, med2)
        vals == FineValues(nb, co, med2, i0)
    IN  {[kind |-> IF f.fit = "ok" THEN "return" ELSE "raise",
          why |-> f.why,
          s0 |-> f.s0,
          c |-> IF f.fit = "ok" THEN Clip(f.s0) ELSE 0,
          i0 |-> i0,
          jmin |-> NpArgMin(vals),
          coarse |-> [x |-> CoarseGrid, y |-> CoarseValues(nb, co, med2)],
          xdata |-> FineGrid(i0),
          ydata |-> vals,
          sources |-> Sources(narrowband_image, continuum_image, selection, med2)] :
             f \in curve_fit(Len(nb), i0, vals)}

\* what compute_c does before the fit: the coarse loop, then the fine loop
compute_c_log == GridLoopLog(CoarseMsg, CoarseN) \o GridLoopLog(FineMsg, FineN)


(***************************************************************************)
(* The window after construction                                           *)
(***************************************************************************)
CsName == "CS-generated.fits"
BlendName == "CS-RGB-blended.fits"

\* the files the user has: a narrowband frame, its continuum frame, a frame
\* of another (broadcastable) shape, a frame of an incompatible shape and a
\* file that is not readable as FITS
UserDisk ==
    [p \in {"nb.fits", "co.fits", "tall.fits", "wide.fits", "bad.fits"} |->
        CASE p = "nb.fits" -> Img(1, <<<<0, 1>>>>)
          [] p = "co.fits" -> Img(1, <<<<0, 5>>>>)
          [] p = "tall.fits" -> Img(1, <<<<1, 2>>, <<3, 5>>>>)
          [] p = "wide.fits" -> Img(1, <<<<1, 2, 4>>>>)
          [] OTHER -> Unreadable]

InitDisk ==
    [p \in DOMAIN UserDisk \cup {CsName, BlendName} |->
        IF p \in DOMAIN UserDisk THEN UserDisk[p] ELSE Unreadable]

\* how many inputs the user makes in all: files selected, changes of the
\* drop-down or of a slider, changes of the host selection
MaxInputs == 5

NoCall == [f |-> "none", args |-> <<>>]
NoResult == [kind |-> "none", why |-> ""]
Idle == [op |-> "none", result |-> ""]

\* SirilCSWindow.__init__ and create_ui
WindowInit ==
    /\ r_file = "" /\ g_file = "" /\ b_file = ""
    /\ ha_file = "" /\ sii_file = "" /\ oiii_file = ""
    /\ emission_file = "" /\ component_file = ""
    /\ cs_file = ""
    /\ emission_combo = "Ha"
    /\ c_slider = 2000
    /\ q_slider = 200
    /\ red_slider = 100 /\ green_slider = 0 /\ blu_slider = 0
    /\ alive = TRUE
    /\ disk = InitDisk
    /\ host_image = ""
    /\ host_selection = <<>>
    /\ last = Idle
    /\ log = <<>>
    /\ budget = 0

windowVars == <<r_file, g_file, b_file, ha_file, sii_file, oiii_file, emission_file,
                component_file, cs_file, emission_combo, c_slider, q_slider,
                red_slider, green_slider, blu_slider, alive, disk, host_image,
                host_selection, last, budget>>

(***************************************************************************)
(* numpy broadcasting of 2-D arrays                                        *)
(***************************************************************************)
Broadcastable(sa, sb) ==
    \A d \in 1..2 : sa[d] = sb[d] \/ sa[d] = 1 \/ sb[d] = 1
BroadcastShape(sa, sb) ==
    [d \in 1..2 |-> IF sa[d] = 1 THEN sb[d] ELSE sa[d]]
\* element (i, j) of rows broadcast to a larger shape
At(rows, i, j) ==
    rows[IF Len(rows) = 1 THEN 1 ELSE i][IF Len(rows[1]) = 1 THEN 1 ELSE j]

(***************************************************************************)
(* Handlers of the window                                                  *)
(***************************************************************************)
Done(o, r) == [op |-> o, result |-> r]
Msg(title) == Ev("message", title, 0, 1)

\* on_emission_changed with the weights of Ha for every line
EmissionBindingOff(text, f) ==
    CASE text = "Ha" -> [emission |-> f.ha, component |-> f.r, red |-> 100, green |-> 0, blu |-> 0]
      [] text = "SII" -> [emission |-> f.sii, component |-> f.g, red |-> 100, green |-> 0, blu |-> 0]
      [] text = "OIII" -> [emission |-> f.oiii, component |-> f.b, red |-> 100, green |-> 0, blu |-> 0]

\* what on_emission_changed assigns, for a line and the six file attributes
EmissionBinding(text, f) ==
    CASE text = "Ha" -> [emission |-> f.ha, component |-> f.r, red |-> 100, green |-> 0, blu |-> 0]
      [] text = "SII" -> [emission |-> f.sii, component |-> f.g, red |-> 0, green |-> 100, blu |-> 0]
      [] text = "OIII" -> [emission |-> f.oiii, component |-> f.b, red |-> 0, green |-> 0, blu |-> 100]

Files == [r |-> r_file, g |-> g_file, b |-> b_file,
          ha |-> ha_file, sii |-> sii_file, oiii |-> oiii_file]

\* on_emission_changed(text) reading the file attributes as they were before
\* the handler that calls it assigned one
ApplyEmissionStale(text, f) ==
    LET e == EmissionBinding(text, Files)
    IN  /\ emission_file' = e.emission
        /\ component_file' = e.component
        /\ red_slider' = e.red
        /\ green_slider' = e.green
        /\ blu_slider' = e.blu

\* on_emission_changed(text), on the file attributes f
ApplyEmission(text, f) ==
    LET e == EmissionBinding(text, f)
    IN  /\ emission_file' = e.emission
        /\ component_file' = e.component
        /\ red_slider' = e.red
        /\ green_slider' = e.green
        /\ blu_slider' = e.blu

\* the user picks another line in the drop-down: currentTextChanged
on_emission_changed(text) ==
    /\ alive /\ fn_in = NoCall
    /\ text # emission_combo
    /\ budget < MaxInputs
    /\ budget' = budget + 1
    /\ emission_combo' = text
    /\ ApplyEmission(text, Files)
    /\ last' = Done("on_emission_changed", "")
    /\ log' = <<>>
    /\ UNCHANGED <<r_file, g_file, b_file, ha_file, sii_file, oiii_file, cs_file,
                   c_slider, q_slider, alive, disk, host_image, host_selection,
                   fn_in, fn_out>>

\* on_select_file(file_attr, lineedit), the dialog returning path ("" when
\* cancelled)
on_select_file(file_attr, path) ==
    /\ alive /\ fn_in = NoCall
    /\ IF path # ""
       THEN /\ budget < MaxInputs
            /\ budget' = budget + 1
            /\ r_file' = IF file_attr = "r_file" THEN path ELSE r_file
            /\ g_file' = IF file_attr = "g_file" THEN path ELSE g_file
            /\ b_file' = IF file_attr = "b_file" THEN path ELSE b_file
            /\ ha_file' = IF file_attr = "ha_file" THEN path ELSE ha_file
            /\ sii_file' = IF file_attr = "sii_file" THEN path ELSE sii_file
            /\ oiii_file' = IF file_attr = "oiii_file" THEN path ELSE oiii_file
            /\ ApplyEmission(emission_combo,
                             [r |-> r_file', g |-> g_file', b |-> b_file',
                              ha |-> ha_file', sii |-> sii_file', oiii |-> oiii_file'])
            /\ last' = Done("on_select_file", "")
       ELSE /\ UNCHANGED <<budget, r_file, g_file, b_file, ha_file, sii_file, oiii_file,
                           emission_file, component_file, red_slider, green_slider,
                           blu_slider>>
            /\ last' = Done("on_select_file", "cancelled")
    /\ log' = <<>>
    /\ UNCHANGED <<cs_file, emission_combo, c_slider, q_slider, alive, disk,
                   host_image, host_selection, fn_in, fn_out>>

\* the user drags a slider
MoveSlider(name, v) ==
    /\ alive /\ fn_in = NoCall
    /\ budget < MaxInputs
    /\ budget' = budget + 1
    /\ c_slider' = IF name = "c" THEN v ELSE c_slider
    /\ q_slider' = IF name = "q" THEN v ELSE q_slider
    /\ red_slider' = IF name = "red" THEN v ELSE red_slider
    /\ green_slider' = IF name = "green" THEN v ELSE green_slider
    /\ blu_slider' = IF name = "blu" THEN v ELSE blu_slider
    /\ <<c_slider', q_slider', red_slider', green_slider', blu_slider'>>
         # <<c_slider, q_slider, red_slider, green_slider, blu_slider>>
    /\ last' = Done("input", "")
    /\ log' = <<>>
    /\ UNCHANGED <<r_file, g_file, b_file, ha_file, sii_file, oiii_file, emission_file,
                   component_file, cs_file, emission_combo, alive, disk, host_image,
                   host_selection, fn_in, fn_out>>

\* the user draws, changes or clears the selection in the host
HostSelect(sel) ==
    /\ alive /\ fn_in = NoCall
    /\ sel # host_selection
    /\ budget < MaxInputs
    /\ budget' = budget + 1
    /\ host_selection' = sel
    /\ last' = Done("input", "")
    /\ log' = <<>>
    /\ UNCHANGED <<r_file, g_file, b_file, ha_file, sii_file, oiii_file, emission_file,
                   component_file, cs_file, emission_combo, c_slider, q_slider,
                   red_slider, green_slider, blu_slider, alive, disk, host_image,
                   fn_in, fn_out>>

\* on_load: siril.cmd("load", ...) is outside any try
on_load ==
    /\ alive /\ fn_in = NoCall
    /\ IF emission_file = "" \/ component_file = ""
       THEN /\ last' = Done("on_load", "Missing file")
            /\ log' = <<Msg("Missing file")>>
            /\ UNCHANGED <<alive, host_image>>
       ELSE IF ~disk[emission_file].ok
       THEN /\ last' = Done("on_load", "unhandled CommandError")
            /\ log' = <<Ev("load", emission_file, 0, 1)>>
            /\ alive' = FALSE
            /\ UNCHANGED host_image
       ELSE /\ last' = Done("on_load", "loaded")
            /\ log' = <<Ev("load", emission_file, 0, 1)>>
            /\ host_image' = emission_file
            /\ UNCHANGED alive
    /\ UNCHANGED <<r_file, g_file, b_file, ha_file, sii_file, oiii_file, emission_file,
                   component_file, cs_file, emission_combo, c_slider, q_slider,
                   red_slider, green_slider, blu_slider, disk, host_selection,
                   budget, fn_in, fn_out>>

\* fits.getdata(path) succeeds
Readable(d, path) == path \in DOMAIN d /\ d[path].ok

\* a slider position v as the fraction v / scale in lowest terms
SliderFraction(v, scale) == <<v \div GCD(scale, v), scale \div GCD(scale, v)>>

\* emission_data - c * component_data for c = cval / 10000 (numpy broadcasts)
Subtract(em, comp, cval) ==
    LET shape == BroadcastShape(Shape(em.rows), Shape(comp.rows))
        c == SliderFraction(cval, SliderScale)
    IN  Normal(em.den * comp.den * c[2],
               [i \in 1..shape[1] |-> [j \in 1..shape[2] |->
                   At(em.rows, i, j) * comp.den * c[2]
                       - c[1] * At(comp.rows, i, j) * em.den]])

\* the end of a generate whose load command does not reach the host
GenEndNoLoad(csf, d, h, res, lg) ==
    [cs_file |-> csf, disk |-> d, host_image |-> host_image, result |-> res, log |-> lg]
\* how on_generate ends: cs_file, the files, the host's image, the outcome
\* and the calls made
GenEnd(csf, d, h, res, lg) ==
    [cs_file |-> csf, disk |-> d, host_image |-> h, result |-> res, log |-> lg]

\* on_generate with the c slider at cval: every way it can end
GenerateOutcomes(cval) ==
    IF component_file = "" \/ emission_file = ""
    THEN {GenEnd(cs_file, disk, host_image, "Missing files", <<Msg("Missing files")>>)}
    ELSE IF ~Readable(disk, component_file)
    THEN {GenEnd(cs_file, disk, host_image, "Error",
                 <<Ev("getdata", component_file, 0, 1), Msg("Error")>>)}
    ELSE IF ~Readable(disk, emission_file)
    THEN {GenEnd(cs_file, disk, host_image, "Error",
                 <<Ev("getdata", component_file, 0, 1),
                   Ev("getdata", emission_file, 0, 1), Msg("Error")>>)}
    ELSE IF ~Broadcastable(Shape(disk[emission_file].rows), Shape(disk[component_file].rows))
    THEN {GenEnd(cs_file, disk, host_image, "Error",
                 <<Ev("getdata", component_file, 0, 1),
                   Ev("getdata", emission_file, 0, 1), Msg("Error")>>)}
    ELSE {\* hdu.writeto raises: self.cs_file is already assigned
          GenEnd(CsName, disk, host_image, "Error",
                 <<Ev("getdata", component_file, 0, 1),
                   Ev("getdata", emission_file, 0, 1),
                   Ev("writeto", CsName, 0, 0), Msg("Error")>>),
          GenEnd(CsName,
                 [disk EXCEPT ![CsName] =
                      Subtract(disk[emission_file], disk[component_file], cval)],
                 CsName, "generated",
                 <<Ev("getdata", component_file, 0, 1),
                   Ev("getdata", emission_file, 0, 1),
                   Ev("writeto", CsName, 1, 1), Ev("load", CsName, 0, 1)>>)}

on_generate ==
    /\ alive /\ fn_in = NoCall
    /\ \E g \in GenerateOutcomes(c_slider) :
           /\ cs_file' = g.cs_file
           /\ disk' = g.disk
           /\ host_image' = g.host_image
           /\ last' = Done("on_generate", g.result)
           /\ log' = g.log
    /\ UNCHANGED <<r_file, g_file, b_file, ha_file, sii_file, oiii_file, emission_file,
                   component_file, emission_combo, c_slider, q_slider, red_slider,
                   green_slider, blu_slider, alive, host_selection, budget,
                   fn_in, fn_out>>

\* the q slider counts 1/100ths, the channel sliders percent
QScale == 100
WScale == 100

\* channel + (cs_data - cs_median) * q * adjust for q = qv / 100 and
\* adjust = wv / 100 (numpy broadcasts)
BlendPlane(channel, cs, qv, wv) ==
    LET shape == BroadcastShape(Shape(channel.rows), Shape(cs.rows))
        med2 == Median2(Flatten(cs.rows))
        q == SliderFraction(qv, QScale)
        w == SliderFraction(wv, WScale)
        K == 2 * cs.den * q[2] * w[2]
    IN  Normal(channel.den * K,
               [i \in 1..shape[1] |-> [j \in 1..shape[2] |->
                   At(channel.rows, i, j) * K
                       + (2 * At(cs.rows, i, j) - med2) * q[1] * w[1] * channel.den]])

\* np.array([new_rdata, new_gdata, new_bdata]): three planes, channel first
Stack(p1, p2, p3) == [ok |-> TRUE, den |-> 1, rows |-> <<p1, p2, p3>>]

\* the planes on_blend stacks, in order
BlendPlanesSwapped(r, g, b, cs, qv, red, green, blu) ==
    <<BlendPlane(r, cs, qv, red), BlendPlane(g, cs, qv, blu), BlendPlane(b, cs, qv, green)>>
BlendPlanes(r, g, b, cs, qv, red, green, blu) ==
    <<BlendPlane(r, cs, qv, red), BlendPlane(g, cs, qv, green), BlendPlane(b, cs, qv, blu)>>

\* the arithmetic of on_blend raises ValueError: an operand does not broadcast
\* against cs, or the three results differ in shape and do not stack
BlendRaises(r, g, b, cs) ==
    \/ \E ch \in {r, g, b} : ~Broadcastable(Shape(ch.rows), Shape(cs.rows))
    \/ \E c1 \in {r, g, b} : \E c2 \in {r, g, b} :
           BroadcastShape(Shape(c1.rows), Shape(cs.rows))
               # BroadcastShape(Shape(c2.rows), Shape(cs.rows))

\* lines 438-455 of on_blend on the four arrays read
composite(r, g, b, cs, qv, red, green, blu) ==
    IF BlendRaises(r, g, b, cs)
    THEN [kind |-> "raise", why |-> "ValueError", img |-> Unreadable]
    ELSE [kind |-> "return", why |-> "",
          img |-> LET pl == BlendPlanes(r, g, b, cs, qv, red, green, blu)
                  IN  Stack(pl[1], pl[2], pl[3])]

BlendEnd(d, h, res, lg) == [disk |-> d, host_image |-> h, result |-> res, log |-> lg]

\* on_blend: every way it can end
BlendOutcomes ==
    IF r_file = "" \/ g_file = "" \/ b_file = "" \/ cs_file = ""
    THEN {BlendEnd(disk, host_image, "Missing components", <<Msg("Missing components")>>)}
    ELSE IF \E f \in {r_file, g_file, b_file, cs_file} : ~Readable(disk, f)
    THEN {BlendEnd(disk, host_image, "Error", <<Ev("getdata", "", 0, 0), Msg("Error")>>)}
    ELSE LET out == composite(disk[r_file], disk[g_file], disk[b_file], disk[cs_file],
                              q_slider, red_slider, green_slider, blu_slider)
             reads == <<Ev("getdata", r_file, 0, 1), Ev("getdata", g_file, 0, 1),
                        Ev("getdata", b_file, 0, 1), Ev("getdata", cs_file, 0, 1)>>
         IN  IF out.kind = "raise"
             THEN {BlendEnd(disk, host_image, "Error", reads \o <<Msg("Error")>>)}
             ELSE {BlendEnd(disk, host_image, "Error",
                            reads \o <<Ev("writeto", BlendName, 0, 0), Msg("Error")>>),
                   BlendEnd([disk EXCEPT ![BlendName] = out.img], BlendName, "blended",
                            reads \o <<Ev("writeto", BlendName, 1, 1),
                                       Ev("load", BlendName, 0, 1)>>)}

on_blend ==
    /\ alive /\ fn_in = NoCall
    /\ \E o \in BlendOutcomes :
           /\ disk' = o.disk
           /\ host_image' = o.host_image
           /\ last' = Done("on_blend", o.result)
           /\ log' = o.log
    /\ UNCHANGED <<r_file, g_file, b_file, ha_file, sii_file, oiii_file, emission_file,
                   component_file, cs_file, emission_combo, c_slider, q_slider,
                   red_slider, green_slider, blu_slider, alive, host_selection,
                   budget, fn_in, fn_out>>

\* selection is None or selection[2] <= 0 or selection[3] <= 0
RegionInvalidLax(selection) ==
    selection = <<>> \/ selection[3] < 0 \/ selection[4] < 0
RegionInvalid(selection) ==
    selection = <<>> \/ selection[3] <= 0 \/ selection[4] <= 0

\* continuum_data.shape != narrowband_data.shape
ShapesDifferLax(narrowband, continuum) ==
    ~Broadcastable(Shape(narrowband.rows), Shape(continuum.rows))
ShapesDiffer(narrowband, continuum) == Shape(continuum.rows) # Shape(narrowband.rows)

\* siril.get_selection_stats(selection, 0).median, times 2: the host's median
\* of the loaded image inside the selection (0 for an empty intersection)
RegionMedian2(rows, selection) ==
    LET inside == Flatten(slc(rows, selection))
    IN  IF inside = <<>> THEN 0 ELSE Median2(inside)
HostMedian2(selection) == RegionMedian2(disk[host_image].rows, selection)

\* rounding of num / d >= 0 that takes a half upwards
RoundHalfUp(num, d) == (2 * num + d) \div (2 * d)
\* int(round(x)) for x = num / d >= 0: Python rounds a half to even
RoundHalfEven(num, d) ==
    LET q == num \div d
        r == num % d
    IN  IF 2 * r < d THEN q
        ELSE IF 2 * r > d THEN q + 1
        ELSE IF q % 2 = 0 THEN q ELSE q + 1

\* int(round(c * 10000)) with the factor of the fine grid's scale left out
SliderValueOff(c) == RoundHalfEven(c * SliderScale, SliderScale)
\* int(round(c * 10000)) for the returned c (carried times S0Scale)
SliderValue(c) == RoundHalfEven(c * SliderScale, S0Scale)

\* self.c_slider.setRange(0, 10000)
CSliderMin == 0
CSliderMax == 10000
\* self.c_slider.setValue(v): a QSlider binds the value into its range
setValue(v) == Max2(CSliderMin, Min2(CSliderMax, v))

Locked == Ev("image_lock", "enter", 0, 1)
Unlocked == Ev("image_lock", "exit", 0, 1)
\* c_median = siril.get_selection_stats(selection, 0).median, as num / den
Stats(selection) == Ev("get_selection_stats", host_image, HostMedian2(selection), 2)

\* on_estimate returning from inside the lock without leaving it
EstimateRejectedLocked(result) ==
    /\ last' = Done("on_estimate", result)
    /\ log' = IF result = "Mismatched Images"
              THEN <<Locked, Stats(host_selection), Unlocked,
                     Ev("getdata", emission_file, 0, 1), Ev("getdata", component_file, 0, 1),
                     Msg(result)>>
              ELSE <<Locked, Msg(result)>>
    /\ UNCHANGED <<c_slider, cs_file, disk, host_image, alive>>

\* on_estimate ends at one of its three early returns inside the lock, or at
\* the shape check
EstimateRejected(result) ==
    /\ last' = Done("on_estimate", result)
    /\ log' = IF result = "Mismatched Images"
              THEN <<Locked, Stats(host_selection), Unlocked,
                     Ev("getdata", emission_file, 0, 1), Ev("getdata", component_file, 0, 1),
                     Msg(result)>>
              ELSE <<Locked, Msg(result), Unlocked>>
    /\ UNCHANGED <<c_slider, cs_file, disk, host_image, alive>>

\* on_estimate ends in an exception no handler catches
EstimateUnhandled(what, lg) ==
    /\ last' = Done("on_estimate", what)
    /\ log' = lg
    /\ alive' = FALSE
    /\ UNCHANGED <<c_slider, cs_file, disk, host_image>>

\* host selections: none, the whole 1 x 2 frame, an empty one, one reaching
\* past the right edge
Selections == {<<>>, <<0, 0, 2, 1>>, <<0, 0, 0, 1>>, <<1, 0, 2, 1>>}

\* the calls of compute_c that on_estimate can make: two readable frames of
\* the user of one shape, a selection that passed the region test and the
\* host's median of a frame inside it
EstimateFrames == {UserDisk[p].rows : p \in {q \in DOMAIN UserDisk : UserDisk[q].ok}}
EstimateCalls ==
    {call \in {<<nb, co, sel, RegionMedian2(im, sel)>> :
                  nb \in EstimateFrames, co \in EstimateFrames,
                  sel \in {t \in Selections : ~RegionInvalid(t)}, im \in EstimateFrames} :
        Shape(call[1]) = Shape(call[2])}

\* c = self.compute_c(narrowband_data, continuum_data, selection, c_median, ...),
\* tabulated over EstimateCalls so that each call is evaluated once
compute_c_table ==
    [call \in EstimateCalls |-> compute_c(call[1], call[2], call[3], call[4])]

on_estimate ==
    /\ alive /\ fn_in = NoCall
    /\ IF host_image = "" THEN EstimateRejected("Missing Image")
       ELSE IF host_image # emission_file THEN EstimateRejected("Invalid Image")
       ELSE IF RegionInvalid(host_selection) THEN EstimateRejected("Invalid Region")
       ELSE IF ~Readable(disk, emission_file)
       THEN EstimateUnhandled("unhandled getdata",
                              <<Locked, Stats(host_selection), Unlocked,
                                Ev("getdata", emission_file, 0, 0)>>)
       ELSE IF ~Readable(disk, component_file)
       THEN EstimateUnhandled("unhandled getdata",
                              <<Locked, Stats(host_selection), Unlocked,
                                Ev("getdata", emission_file, 0, 1),
                                Ev("getdata", component_file, 0, 0)>>)
       ELSE IF ShapesDiffer(disk[emission_file], disk[component_file])
       THEN EstimateRejected("Mismatched Images")
       ELSE \E o \in compute_c_table[<<disk[emission_file].rows, disk[component_file].rows,
                                       host_selection, HostMedian2(host_selection)>>] :
              LET head == <<Locked, Stats(host_selection), Unlocked,
                            Ev("getdata", emission_file, 0, 1),
                            Ev("getdata", component_file, 0, 1)>> \o compute_c_log
              IN  IF o.kind = "raise"
                  THEN EstimateUnhandled("unhandled curve_fit " \o o.why, head)
                  ELSE /\ c_slider' = setValue(SliderValue(o.c))
                       /\ \E g \in GenerateOutcomes(c_slider') :
                              /\ cs_file' = g.cs_file
                              /\ disk' = g.disk
                              /\ host_image' = g.host_image
                              /\ last' = Done("on_estimate", "estimated, " \o g.result)
                              /\ log' = head \o <<Ev("setValue", "c_slider", SliderValue(o.c), 1)>>
                                             \o g.log
                       /\ UNCHANGED alive
    /\ UNCHANGED <<r_file, g_file, b_file, ha_file, sii_file, oiii_file, emission_file,
                   component_file, emission_combo, q_slider, red_slider, green_slider,
                   blu_slider, host_selection, budget, fn_in, fn_out>>

(***************************************************************************)
(* The window: what the user and the host can do                           *)
(***************************************************************************)
FileAttrs == {"r_file", "g_file", "b_file", "ha_file", "sii_file", "oiii_file"}
\* the files the user picks for each attribute
Offered(file_attr) ==
    CASE file_attr = "ha_file" -> {"nb.fits", "tall.fits", "bad.fits"}
      [] file_attr = "r_file" -> {"co.fits", "wide.fits", "bad.fits"}
      [] file_attr = "g_file" -> {"co.fits", "tall.fits"}
      [] file_attr = "b_file" -> {"co.fits"}
      [] file_attr = "sii_file" -> {"nb.fits"}
      [] file_attr = "oiii_file" -> {"nb.fits"}
Lines == {"Ha", "SII", "OIII"}
\* slider positions the user moves to
SliderMoves == {<<"c", 0>>, <<"q", 0>>, <<"blu", 50>>}

Init ==
    /\ WindowInit
    /\ fn_in = NoCall
    /\ fn_out = NoResult

Next ==
    \/ \E a \in FileAttrs : \E path \in Offered(a) \cup {""} : on_select_file(a, path)
    \/ \E text \in Lines : on_emission_changed(text)
    \/ \E m \in SliderMoves : MoveSlider(m[1], m[2])
    \/ \E sel \in Selections : HostSelect(sel)
    \/ on_load
    \/ on_generate
    \/ on_blend
    \/ on_estimate

Spec == Init /\ [][Next]_vars

(***************************************************************************)
(* compute_c called directly, on drawn inputs                              *)
(***************************************************************************)
PixelValues == {0, 3, 10, 15, 25}
\* the 1 x 2 frames over PixelValues
Frames == {<<<<a, b>>>> : a \in PixelValues, b \in PixelValues}
\* regions: the whole frame, one pixel, one reaching past the right edge, one
\* wholly outside
Regions == {<<0, 0, 2, 1>>, <<1, 0, 1, 1>>, <<1, 0, 2, 1>>, <<2, 0, 1, 1>>}
\* baselines, times 2
Baselines == {0, 20}

ComputeInit ==
    /\ WindowInit
    /\ fn_in \in {[f |-> "compute_c", args |-> <<nb, co, sel, m>>] :
                    nb \in Frames, co \in Frames, sel \in Regions, m \in Baselines}
    /\ fn_out = NoResult

\* c = self.compute_c(narrowband_data, continuum_data, selection, c_median, ...)
ComputeCall ==
    /\ fn_out = NoResult
    /\ \E o \in compute_c(fn_in.args[1], fn_in.args[2], fn_in.args[3], fn_in.args[4]) :
           fn_out' = o
    /\ log' = compute_c_log
    /\ UNCHANGED <<windowVars, fn_in>>

ComputeNext == ComputeCall

SpecCompute == ComputeInit /\ [][ComputeNext]_vars


(***************************************************************************)
(* Claims about the estimator (under SpecCompute)                          *)
(***************************************************************************)
ComputeCalled == fn_in.f = "compute_c" /\ fn_out.kind # "none"
WholeFrame == <<0, 0, 2, 1>>

\* C1: every value compute_c returns is the fitted vertex s0 clipped to [0,1]:
\* exactly 1 when s0 > 1, exactly 0 when s0 < 0, s0 itself otherwise, and so
\* never outside the closed interval [0,1].
C1_ReturnIsClippedVertex ==
    (ComputeCalled /\ fn_out.kind = "return") =>
        /\ fn_out.s0 > S0Scale => fn_out.c = S0Scale
        /\ fn_out.s0 < 0 => fn_out.c = 0
        /\ (0 <= fn_out.s0 /\ fn_out.s0 <= S0Scale) => fn_out.c = fn_out.s0
        /\ 0 <= fn_out.c /\ fn_out.c <= S0Scale

\* C1's case: nb = 1.5 * co, the fit reports a vertex above 1 and 1 is returned
C1_Witness ==
    /\ ComputeCalled /\ fn_out.kind = "return"
    /\ fn_in.args[1] = <<<<0, 15>>>> /\ fn_in.args[2] = <<<<0, 10>>>>
    /\ fn_in.args[3] = WholeFrame
    /\ fn_out.s0 > S0Scale /\ fn_out.c = S0Scale

\* nb = co * c_true exactly (no noise), co not constant, 0 <= c_true <= 1,
\* over the whole 1 x 2 frame
SyntheticPair ==
    LET nb == fn_in.args[1][1]
        co == fn_in.args[2][1]
    IN  /\ fn_in.f = "compute_c" /\ fn_in.args[3] = WholeFrame
        /\ co[1] # co[2]
        /\ nb[1] * co[2] = nb[2] * co[1]
        /\ 0 <= nb[1] /\ nb[1] <= co[1] /\ 0 <= nb[2] /\ nb[2] <= co[2]

\* C2: for a continuum co of nonzero variance and nb = co * c_true (+ small
\* noise), c_true in [0,1], the estimator returns a value within 0.02 of
\* c_true.  How close a converged vertex is to c_true is the library solver's
\* doing; stated here is what the claim needs of compute_c itself: on such a
\* pair the fit is started on inputs the solver accepts, so that the call can
\* return a value at all.
C2_RecoversKnownCoefficient ==
    (SyntheticPair /\ ComputeCalled) =>
        fn_out.why \notin {"x0_infeasible", "bounds", "nonfinite"}

\* C3: on the degenerate input (continuum constant 10, narrowband constant 25:
\* the AAD is 0 at every candidate c) the estimator does not raise and returns
\* some value in [0,1].
C3_DegenerateInputReturns ==
    (/\ ComputeCalled
     /\ fn_in.args[1] = <<<<25, 25>>>> /\ fn_in.args[2] = <<<<10, 10>>>>
     /\ fn_in.args[3] = WholeFrame) =>
        /\ fn_out.kind = "return"
        /\ 0 <= fn_out.c /\ fn_out.c <= S0Scale

\* C4: when the fit fails (the solver raises or does not converge) the
\* estimator does not abort: it returns the c at the argmin of the 40-point
\* fine trace.
C4_FitFailureFallsBack ==
    (ComputeCalled /\ fn_out.why # "") =>
        /\ fn_out.kind = "return"
        /\ fn_out.c * FineDen = FineNum(fn_out.i0, fn_out.jmin) * S0Scale

\* the fractions passed to update_progress, in order, as <<num, den>>
RECURSIVE Fractions(_)
Fractions(events) ==
    IF events = <<>> THEN <<>>
    ELSE (IF events[1].ev = "update_progress"
          THEN <<<<events[1].num, events[1].den>>>> ELSE <<>>)
         \o Fractions(Tail(events))

FracLeq(a, b) == a[1] * b[2] <= b[1] * a[2]
IsOne(a) == a[1] = a[2]

\* C7 as claimed: over one estimate (coarse phase, then fine phase) the
\* fractions passed to the progress sink never decrease from the first
\* notification to the last, and the last one is 1.0.
C7_ProgressMonotonicOverCall ==
    ComputeCalled =>
        LET fr == Fractions(log)
        IN  /\ \A k \in 1..(Len(fr) - 1) : FracLeq(fr[k], fr[k + 1])
            /\ IsOne(fr[Len(fr)])

\* C7 as amended: within each phase (between two resets of the sink) the
\* fractions never decrease and the phase's last fraction is 1.0; the fine
\* phase starts again at 0 after the coarse phase ended at 1.0; the last
\* fraction of the call is 1.0.
C7_ProgressMonotonicPerPhase ==
    ComputeCalled =>
        /\ \A k \in 1..(Len(log) - 2) :
               (log[k].ev = "update_progress" /\ log[k + 2].ev = "update_progress") =>
                   /\ log[k + 1].ev = "aad"
                   /\ FracLeq(<<log[k].num, log[k].den>>, <<log[k + 2].num, log[k + 2].den>>)
        /\ \A k \in 2..Len(log) :
               log[k].ev = "reset_progress" =>
                   /\ log[k - 1].ev = "update_progress"
                   /\ log[k - 1].num = log[k - 1].den
        /\ Len(Fractions(log)) = CoarseN + FineN
        /\ Fractions(log)[CoarseN] = <<CoarseN - 1, CoarseN - 1>>
        /\ Fractions(log)[CoarseN + 1] = <<0, FineN - 1>>
        /\ IsOne(Fractions(log)[CoarseN + FineN])

\* C7's case: an estimate that ran both phases
C7_Witness ==
    /\ ComputeCalled
    /\ \E k \in 1..Len(log) : log[k].ev = "update_progress" /\ log[k].msg = CoarseMsg
    /\ \E k \in 1..Len(log) : log[k].ev = "update_progress" /\ log[k].msg = FineMsg


\* the AAD of nb - (co - baseline) * c over the region of the call, for
\* c = num / den (times n*n*2*den)
CallAad(num, den) ==
    aad(Subtracted(Flatten(slc(fn_in.args[1], fn_in.args[3])),
                   Flatten(slc(fn_in.args[2], fn_in.args[3])),
                   fn_in.args[4], num, den))

\* how many AAD evaluations of the phase with this message the events hold
RECURSIVE AadCount(_, _)
AadCount(events, msg) ==
    IF events = <<>> THEN 0
    ELSE (IF events[1].ev = "aad" /\ events[1].msg = msg THEN 1 ELSE 0)
         + AadCount(Tail(events), msg)

\* C13: the coarse search evaluates aad(nb - (co - baseline) * c) at exactly 12
\* evenly spaced values of c over [-1, 5], both ends included, and returns a
\* sampled c whose AAD is minimal among the 12; when several samples tie for
\* the minimum it returns the smallest such c.
C13_CoarseSearch ==
    ComputeCalled =>
        LET x == fn_out.coarse.x
            y == fn_out.coarse.y
            r == fn_out.i0 + 1
        IN  /\ Len(x) = 12 /\ Len(y) = 12
            /\ AadCount(log, CoarseMsg) = 12
            /\ \A k \in 1..12 : x[k] = -1 * 11 + (k - 1) * 6
            /\ x[12] = 5 * 11
            /\ \A k \in 1..12 : y[k] = CallAad(x[k], 11)
            /\ r \in 1..12
            /\ \A k \in 1..12 : y[r] <= y[k]
            /\ \A k \in 1..(r - 1) : y[k] > y[r]

\* C13's case: several coarse samples tie for the minimum and the smallest c
\* (-1, the first sample) is returned
C13_Witness ==
    /\ ComputeCalled
    /\ fn_in.args[1] = <<<<25, 25>>>> /\ fn_in.args[2] = <<<<10, 10>>>>
    /\ fn_in.args[3] = WholeFrame
    /\ fn_out.coarse.y[1] = fn_out.coarse.y[12]
    /\ fn_out.i0 = 0

\* C14: given the coarse minimum c0, the fine search samples the AAD at
\* exactly 40 evenly spaced values of c over [c0 - 1, c0 + 1], both ends
\* included, in increasing order of c, and the fit is run on exactly these 40
\* (c, aad) pairs and on no coarse sample.
C14_FineSearch ==
    ComputeCalled =>
        LET c0 == fn_out.coarse.x[fn_out.i0 + 1]
            x == fn_out.xdata
            y == fn_out.ydata
        IN  /\ Len(x) = 40 /\ Len(y) = 40
            /\ AadCount(log, FineMsg) = 40
            /\ x[1] = (c0 - 11) * 39
            /\ x[40] = (c0 + 11) * 39
            /\ \A k \in 1..39 : /\ x[k] < x[k + 1]
                                /\ (x[k + 1] - x[k]) * 39 = x[40] - x[1]
            /\ \A k \in 1..40 : y[k] = CallAad(x[k], 11 * 39)

\* C14's case: nb = co, the coarse minimum is c0 = 13/11 and the fit is run on
\* the 40 samples from 2/11 to 24/11
C14_Witness ==
    /\ ComputeCalled
    /\ fn_in.args[1] = <<<<0, 10>>>> /\ fn_in.args[2] = <<<<0, 10>>>>
    /\ fn_in.args[3] = WholeFrame /\ fn_in.args[4] = 0
    /\ fn_out.i0 = 4
    /\ fn_out.xdata[1] = 2 * 39 /\ fn_out.xdata[40] = 24 * 39

\* C15 as claimed: one estimate call performs 80 AAD evaluations in total
\* across the coarse and fine phases.
C15_EightyEvaluations ==
    ComputeCalled => AadCount(log, CoarseMsg) + AadCount(log, FineMsg) = 80

\* C15 as amended: one estimate call performs 52 AAD evaluations in total,
\* 12 in the coarse phase and then 40 in the fine phase.
C15_FiftyTwoEvaluations ==
    ComputeCalled =>
        /\ AadCount(log, CoarseMsg) = 12
        /\ AadCount(log, FineMsg) = 40
        /\ Len(SelectSeq(log, LAMBDA e : e.ev = "aad")) = 52
        /\ \A k \in 1..Len(log) : \A m \in 1..Len(log) :
               (log[k].ev = "aad" /\ log[k].msg = CoarseMsg
                /\ log[m].ev = "aad" /\ log[m].msg = FineMsg) => k < m

\* C15's case: a call on a one-pixel region that went through both loops
C15_Witness ==
    /\ ComputeCalled
    /\ fn_in.args[3] = <<1, 0, 1, 1>>
    /\ AadCount(log, CoarseMsg) > 0 /\ AadCount(log, FineMsg) > 0

\* C16: in each search phase exactly one progress notification is emitted per
\* grid sample, after that sample's AAD has been evaluated and before the next
\* sample is evaluated; every fraction reported lies in [0,1]; and the sink is
\* reset after the last sample of the phase, so that it is in the reset state
\* when the estimate completes.
C16_ProgressPerSample ==
    ComputeCalled =>
        /\ \A k \in 1..Len(log) :
               /\ log[k].ev = "aad" =>
                      /\ k < Len(log)
                      /\ log[k + 1].ev = "update_progress"
                      /\ log[k + 1].msg = log[k].msg
               /\ log[k].ev = "update_progress" =>
                      /\ k > 1 /\ log[k - 1].ev = "aad"
                      /\ log[k].den > 0
                      /\ 0 <= log[k].num /\ log[k].num <= log[k].den
                      /\ k < Len(log)
                      /\ \/ log[k + 1].ev = "aad" /\ log[k + 1].msg = log[k].msg
                         \/ log[k + 1].ev = "reset_progress"
        /\ Len(SelectSeq(log, LAMBDA e : e.ev = "update_progress"))
               = Len(SelectSeq(log, LAMBDA e : e.ev = "aad"))
        /\ Len(SelectSeq(log, LAMBDA e : e.ev = "reset_progress")) = 2
        /\ log # <<>> /\ log[Len(log)].ev = "reset_progress"

\* C16's case: a call whose fit raised, the sink reset before the fit
C16_Witness ==
    /\ ComputeCalled
    /\ fn_out.kind = "raise"
    /\ log[Len(log)].ev = "reset_progress"
    /\ log[Len(log) - 1].ev = "update_progress"

AadSamples == {-1, 0, 2}
\* 2-D arrays over AadSamples of shapes 1 x 1, 1 x 2, 1 x 3 and 2 x 2, and the
\* empty arrays of shapes 0 x 0 and 1 x 0 that a slice can produce
AadArrays ==
    {<<>>, << <<>> >>}
        \cup {<<<<a>>>> : a \in AadSamples}
        \cup {<<<<a, b>>>> : a \in AadSamples, b \in AadSamples}
        \cup {<<<<a, b, c>>>> : a \in AadSamples, b \in AadSamples, c \in AadSamples}
        \cup {<<<<a, b>>, <<c, d>>>> :
                a \in AadSamples, b \in AadSamples, c \in AadSamples, d \in AadSamples}

AadInit ==
    /\ WindowInit
    /\ fn_in \in {[f |-> "aad", args |-> <<data>>] : data \in AadArrays}
    /\ fn_out = NoResult

\* value = aad(data); value carries the result times n * n, or NaN
AadCall ==
    /\ fn_out = NoResult
    /\ fn_out' = [kind |-> "return", why |-> "",
                  value |-> aad(Flatten(fn_in.args[1]))]
    /\ UNCHANGED <<windowVars, log, fn_in>>

AadNext == AadCall

SpecAad == AadInit /\ [][AadNext]_vars

AadReturned == fn_in.f = "aad" /\ fn_out.kind = "return"

\* C18: aad(diff) = mean(|diff - mean(diff)|) is non-negative for every finite
\* 2-D input, and is 0 exactly when all elements of diff are equal.  (NaN is
\* neither non-negative nor 0.)
C18_AadNonNegativeZeroIffConstant ==
    AadReturned =>
        LET data == Flatten(fn_in.args[1])
        IN  /\ fn_out.value # NaN /\ fn_out.value >= 0
            /\ fn_out.value = 0
                   <=> \A k \in 1..Len(data) : \A m \in 1..Len(data) : data[k] = data[m]


(***************************************************************************)
(* The arithmetic of on_blend called directly, on drawn inputs             *)
(***************************************************************************)
\* channel frames: 1 x 2, 2 x 2 and 1 x 3
Channels == {Img(1, <<<<1, 2>>>>), Img(1, <<<<0, 4>>>>),
             Img(1, <<<<1, 2>>, <<3, 5>>>>), Img(1, <<<<1, 2, 4>>>>)}
\* continuum-subtracted frames, one with fractional samples
CsFrames == {Img(1, <<<<0, 1>>>>), Img(5, <<<<-3, 4>>>>),
             Img(1, <<<<0, 2>>, <<4, 9>>>>), Img(1, <<<<1, 2, 4>>>>)}
\* positions of the q slider and of the three channel sliders
QPositions == {0, 200, 1200}
WPositions == {0, 50, 100}

CompositeInit ==
    /\ WindowInit
    /\ fn_in \in {[f |-> "composite", args |-> <<r, g, b, cs, qv, wr, wg, wb>>] :
                    r \in Channels, g \in Channels, b \in Channels, cs \in CsFrames,
                    qv \in QPositions, wr \in WPositions, wg \in WPositions,
                    wb \in WPositions}
    /\ fn_out = NoResult

CompositeCall ==
    /\ fn_out = NoResult
    /\ fn_out' = composite(fn_in.args[1], fn_in.args[2], fn_in.args[3], fn_in.args[4],
                           fn_in.args[5], fn_in.args[6], fn_in.args[7], fn_in.args[8])
    /\ UNCHANGED <<windowVars, log, fn_in>>

CompositeNext == CompositeCall

SpecComposite == CompositeInit /\ [][CompositeNext]_vars

(***************************************************************************)
(* Claims about the window's estimate (under Spec)                         *)
(***************************************************************************)
AadRuns(events) == \E k \in 1..Len(events) : events[k].ev = "aad"

\* the step is a run of on_estimate that got past the two checks of the
\* loaded image
EstimateOfLoadedImage ==
    /\ last'.op = "on_estimate"
    /\ host_image # "" /\ host_image = emission_file

EstimateFrame ==
    /\ ~AadRuns(log')
    /\ c_slider' = c_slider
    /\ cs_file' = cs_file
    /\ disk' = disk
    /\ host_image' = host_image

\* C5: an estimate whose Region is missing or has w <= 0 or h <= 0 fails with
\* InvalidRegion, and one whose continuum image differs in shape from the
\* narrowband image fails with ShapeMismatch; in both cases no AAD sample is
\* evaluated, the c slider and cs_file keep their values and no image is
\* generated.
C5_InvalidInputsRejected ==
    [][EstimateOfLoadedImage =>
         /\ (\/ host_selection = <<>>
             \/ host_selection[3] <= 0
             \/ host_selection[4] <= 0) =>
                (last'.result = "Invalid Region" /\ EstimateFrame)
         /\ (/\ host_selection # <<>>
             /\ host_selection[3] > 0 /\ host_selection[4] > 0
             /\ Readable(disk, emission_file) /\ Readable(disk, component_file)
             /\ Shape(disk[emission_file].rows) # Shape(disk[component_file].rows)) =>
                (last'.result = "Mismatched Images" /\ EstimateFrame)]_vars

\* C5's case: an estimate rejected for its shapes, after a generate had set
\* cs_file
C5_Witness ==
    /\ last = Done("on_estimate", "Mismatched Images")
    /\ cs_file = CsName
    /\ host_selection # <<>>

\* the region reaches outside a frame of the given shape
OutOfBounds(selection, shape) ==
    \/ selection[1] < 0 \/ selection[2] < 0
    \/ selection[1] + selection[3] > shape[2]
    \/ selection[2] + selection[4] > shape[1]

\* C6: an estimate whose Region lies partly or wholly outside the image
\* bounds fails with InvalidRegion instead of running the search on a
\* truncated or empty sub-array.
C6_OutOfBoundsRegionRejected ==
    (/\ last.op = "on_estimate"
     /\ last.result \notin {"Missing Image", "Invalid Image"}
     /\ host_selection # <<>>
     /\ Readable(disk, emission_file)
     /\ OutOfBounds(host_selection, Shape(disk[emission_file].rows))) =>
        (last.result = "Invalid Region" /\ ~AadRuns(log))

(***************************************************************************)
(* Claims about the compositor                                             *)
(***************************************************************************)
CompositeReturned == fn_in.f = "composite" /\ fn_out.kind = "return"

\* C8: compositing with overall strength q = 0 returns the R, G and B
\* channels unchanged, for every cs image and every choice of the three
\* channel weights.
C8_ZeroStrengthUnchanged ==
    (CompositeReturned /\ fn_in.args[5] = 0) =>
        fn_out.img.rows = <<fn_in.args[1], fn_in.args[2], fn_in.args[3]>>

\* C9: for each k in {R, G, B} the compositor computes
\* channel'_k = channel_k + (cs - median(cs)) * q * w_k with the channel's own
\* weight (red for R, green for G, blue for B), element by element, and
\* returns the three results stacked channel-first in the order R, G, B.
C9_CompositeFormula ==
    CompositeReturned =>
        LET cs == fn_in.args[4]
            qv == fn_in.args[5]
            med2 == Median2(Flatten(cs.rows))
        IN  /\ Len(fn_out.img.rows) = 3
            /\ \A k \in 1..3 :
                 LET ch == fn_in.args[k]
                     wv == fn_in.args[5 + k]
                     out == fn_out.img.rows[k]
                     D == 2 * cs.den * QScale * WScale
                 IN  /\ Shape(out.rows) = BroadcastShape(Shape(ch.rows), Shape(cs.rows))
                     /\ \A i \in 1..Len(out.rows) : \A j \in 1..Len(out.rows[i]) :
                          out.rows[i][j] * ch.den * D
                              = out.den * (At(ch.rows, i, j) * D
                                           + (2 * At(cs.rows, i, j) - med2) * qv * wv * ch.den)

\* C9's case: a blend at nonzero strength with three different weights and a
\* cs that is not constant
C9_Witness ==
    /\ CompositeReturned
    /\ fn_in.args[5] = 200
    /\ fn_in.args[6] = 100 /\ fn_in.args[7] = 50 /\ fn_in.args[8] = 0
    /\ fn_in.args[4] = Img(5, <<<<-3, 4>>>>)
    /\ fn_out.img.rows[1] # fn_in.args[1]
    /\ fn_out.img.rows[3] = fn_in.args[3]

\* the four arrays a blend reads
BlendInputs == {disk[r_file], disk[g_file], disk[b_file], disk[cs_file]}

\* C10: compositing fails with ShapeMismatch, and produces and loads no output
\* image, whenever any of R, G, B and cs differ in shape, including shapes
\* that differ only in a dimension of size 1.
C10_ShapeMismatchFails ==
    [][(/\ last'.op = "on_blend"
        /\ \A f \in {r_file, g_file, b_file, cs_file} : Readable(disk, f)
        /\ \E a \in BlendInputs : \E b \in BlendInputs : Shape(a.rows) # Shape(b.rows)) =>
           /\ last'.result = "Error"
           /\ disk' = disk
           /\ host_image' = host_image]_vars

(***************************************************************************)
(* Claims about the estimate and the generate of the window (under Spec)    *)
(***************************************************************************)
\* the c_median an estimate read from the host, as <<num, den>>
StatsRead(events) ==
    LET k == CHOOSE m \in 1..Len(events) : events[m].ev = "get_selection_stats"
    IN  <<events[k].num, events[k].den>>

\* the estimate got through its validation and ran the search
EstimateSearched == last.op = "on_estimate" /\ AadRuns(log)

\* C11: the baseline used to recenter the continuum in both search phases is
\* the median of the continuum image's samples inside the selected Region
\* (stated for a Region inside the image).
C11_BaselineIsContinuumMedian ==
    (/\ EstimateSearched
     /\ ~OutOfBounds(host_selection, Shape(disk[component_file].rows))) =>
        LET inside == Flatten(slc(disk[component_file].rows, host_selection))
        IN  StatsRead(log)[1] * 2 * disk[component_file].den
                = Median2(inside) * StatsRead(log)[2]

\* C12: the continuum-subtracted image generated for a scale factor c is
\* nb - c * (co - baseline), the subtraction model whose AAD the estimator
\* minimised to obtain c (baseline: the one that estimate used).
C12_GeneratedIsRecentredSubtraction ==
    last = Done("on_estimate", "estimated, generated") =>
        LET em == disk[emission_file]
            comp == disk[component_file]
            c == SliderFraction(c_slider, SliderScale)
            b == StatsRead(log)
        IN  disk[CsName] =
                Normal(em.den * comp.den * c[2] * b[2],
                       [i \in 1..Len(em.rows) |-> [j \in 1..Len(em.rows[i]) |->
                           em.rows[i][j] * comp.den * c[2] * b[2]
                               - c[1] * (comp.rows[i][j] * b[2] - b[1] * comp.den) * em.den]])

\* C17: no error raised during an estimate, a generate or a blend escapes its
\* handler as an unhandled exception: each is surfaced as a user-facing
\* message, and the window afterwards accepts a retry.
C17_ErrorsSurfaced ==
    last.op \in {"on_estimate", "on_generate", "on_blend"} =>
        /\ alive
        /\ (\/ last.result \in {"generated", "blended", "estimated, generated"}
            \/ \E k \in 1..Len(log) : log[k].ev = "message")

\* the step is an estimate that got through its validation
EstimateStep ==
    /\ last'.op = "on_estimate"
    /\ host_image # "" /\ host_image = emission_file
    /\ host_selection # <<>> /\ host_selection[3] > 0 /\ host_selection[4] > 0
    /\ Readable(disk, emission_file) /\ Readable(disk, component_file)
    /\ Shape(disk[emission_file].rows) = Shape(disk[component_file].rows)

\* what the coarse search, the fine search and the fit give on the four
\* inputs (narrowband, continuum, region, baseline times 2) of a call
SearchAndFit ==
    [call \in EstimateCalls |->
        LET nb == Flatten(slc(call[1], call[3]))
            co == Flatten(slc(call[2], call[3]))
            i0 == find_min(nb, co, call[4])
        IN  curve_fit(Len(nb), i0, FineValues(nb, co, call[4], i0))]

C21_FitInputsValid ==
    ComputeCalled =>
        LET c0 == fn_out.coarse.x[fn_out.i0 + 1]
            x == fn_out.xdata
            y == fn_out.ydata
            n == Len(Flatten(slc(fn_in.args[1], fn_in.args[3])))
            ub == 2 * (c0 + 11) * 39
            s0_0 == x[fn_out.jmin + 1]
        IN  /\ 0 < ub
            /\ 0 <= s0_0 /\ s0_0 <= ub
            /\ \A k \in 1..40 : y[k] # NaN
            /\ (y[40] - y[1]) * (11 * 39) >= -1 * (x[40] - x[1]) * (n * n * 2 * 11 * 39)
            /\ y[fn_out.jmin + 1] >= 0

\* C30: the objective aad(nb - (co - baseline) * c) has the same value for
\* every baseline, so the coarse minimum, the fine trace and the estimated
\* scale factor do not depend on the baseline supplied: a call gives what the
\* call with baseline 0 gives.
C30_BaselineIrrelevant ==
    ComputeCalled =>
        LET nb == Flatten(slc(fn_in.args[1], fn_in.args[3]))
            co == Flatten(slc(fn_in.args[2], fn_in.args[3]))
        IN  /\ \A k \in 1..12 :
                   fn_out.coarse.y[k] = aad(Subtracted(nb, co, 0, fn_out.coarse.x[k], 11))
            /\ \A k \in 1..40 :
                   fn_out.ydata[k] = aad(Subtracted(nb, co, 0, fn_out.xdata[k], 11 * 39))
            /\ fn_out \in compute_c(fn_in.args[1], fn_in.args[2], fn_in.args[3], 0)

\* C30's case: a call with the baseline 20 on a continuum that is not
\* constant, which returned
C30_Witness ==
    /\ ComputeCalled /\ fn_out.kind = "return"
    /\ fn_in.args[4] = 20
    /\ fn_in.args[3] = WholeFrame
    /\ fn_in.args[1] = <<<<3, 10>>>> /\ fn_in.args[2] = <<<<10, 25>>>>
    /\ fn_out.c > 0

(***************************************************************************)
(* Claims about the window's files, line and sliders (under Spec)          *)
(***************************************************************************)
\* C23: after any sequence of file selections (cancelled dialogs included)
\* and emission-line changes, (emission_file, component_file) is the pair of
\* files bound to the selected line: (ha_file, r_file) for Ha, (sii_file,
\* g_file) for SII, (oiii_file, b_file) for OIII.
C23_BindingFollowsLine ==
    <<emission_file, component_file>> =
        CASE emission_combo = "Ha" -> <<ha_file, r_file>>
          [] emission_combo = "SII" -> <<sii_file, g_file>>
          [] emission_combo = "OIII" -> <<oiii_file, b_file>>

\* C23's case: a cancelled dialog after the files of two lines were chosen
\* and the line was changed to SII
C23_Witness ==
    /\ last = Done("on_select_file", "cancelled")
    /\ emission_combo = "SII"
    /\ ha_file = "nb.fits"
    /\ emission_file = "nb.fits" /\ component_file = "tall.fits"

\* the default weights (red, green, blue) of a line
LineDefaults(text) ==
    CASE text = "Ha" -> <<100, 0, 0>>
      [] text = "SII" -> <<0, 100, 0>>
      [] text = "OIII" -> <<0, 0, 100>>

\* C24: changing the emission line, and equally selecting a file with a
\* non-empty path, sets the three channel weights to the defaults of the
\* current line, whatever the user had set, and leaves the q slider, the c
\* slider and cs_file unchanged; a cancelled file dialog changes no state.
C24_WeightsResetOthersKept ==
    [][/\ (\/ \E text \in Lines : on_emission_changed(text)
           \/ \E a \in FileAttrs : \E path \in Offered(a) : on_select_file(a, path)) =>
              /\ <<red_slider', green_slider', blu_slider'>> = LineDefaults(emission_combo')
              /\ UNCHANGED <<q_slider, c_slider, cs_file>>
       /\ (\E a \in FileAttrs : on_select_file(a, "")) =>
              UNCHANGED <<r_file, g_file, b_file, ha_file, sii_file, oiii_file,
                          emission_file, component_file, cs_file, emission_combo,
                          c_slider, q_slider, red_slider, green_slider, blu_slider,
                          alive, disk, host_image, host_selection>>]_vars

\* C24's case: the line was changed to OIII after the user had moved the q
\* and c sliders
C24_Witness ==
    /\ last = Done("on_emission_changed", "")
    /\ emission_combo = "OIII"
    /\ <<red_slider, green_slider, blu_slider>> = <<0, 0, 100>>
    /\ q_slider = 0 /\ c_slider = 0

\* the arguments of the c_slider.setValue calls of a log
SetValueArgs(events) ==
    {events[k].num : k \in {m \in 1..Len(events) : events[m].ev = "setValue"}}

\* C22: after any sequence of slider changes, estimates and generates, the
\* scale factor a generate uses is slider / 10000 with the slider in 0..10000,
\* hence in [0, 1]; an estimate only ever sets the slider to round(c * 10000)
\* for a c in [0, 1] that the fit returned.
C22_ScaleFactorInUnitInterval ==
    /\ c_slider \in 0..10000
    /\ last.op = "on_estimate" =>
         \A v \in SetValueArgs(log) :
             /\ v \in 0..10000
             /\ c_slider = v
             /\ \E f \in SearchAndFit[<<disk[emission_file].rows, disk[component_file].rows,
                                        host_selection, StatsRead(log)[1]>>] :
                    /\ f.fit = "ok"
                    /\ Clip(f.s0) \in 0..(10 * 10000)
                    /\ Abs(10 * v - Clip(f.s0)) <= 5
    /\ last.result \in {"generated", "estimated, generated"} =>
         \E v \in 0..10000 :
             /\ v = c_slider
             /\ disk[CsName] = Subtract(disk[emission_file], disk[component_file], v)

\* C22's case: an estimate whose fit ended at or above 1 set the slider to
\* its upper end, and the generate used it
C22_Witness ==
    /\ last = Done("on_estimate", "estimated, generated")
    /\ SetValueArgs(log) = {10000}
    /\ c_slider = 10000

(***************************************************************************)
(* Claims about cs_file, generate and blend (under Spec)                   *)
(***************************************************************************)
\* C25: a generate that fails at any step (missing files, unreadable FITS
\* file, shape mismatch in the subtraction, failure writing the output file)
\* leaves cs_file unchanged, so that cs_file is set, and a blend can pass its
\* guard, only after some generate has written the continuum-subtracted file.
C25_FailedGenerateKeepsCsFile ==
    [][/\ (\/ last'.op = "on_generate" /\ last'.result # "generated"
           \/ last'.op = "on_estimate" /\ last'.result \in {"estimated, Missing files",
                                                           "estimated, Error"}) =>
              cs_file' = cs_file
       /\ cs_file' # "" => Readable(disk', cs_file')]_vars

\* every position the c slider takes: the initial one, the ones the user
\* moves it to and the ones an estimate can set
CPositions ==
    {2000} \cup {m[2] : m \in {n \in SliderMoves : n[1] = "c"}}
           \cup {SliderValue(Clip(s)) : s \in FitVertices}

\* C26: whenever a blend composites, the continuum-subtracted image it reads
\* was generated from the emission/component pair that is selected at the
\* blend: it is emission - c * component of the two selected files for some
\* position c of the slider.
C26_BlendReadsCurrentPair ==
    last = Done("on_blend", "blended") =>
        /\ emission_file # "" /\ component_file # ""
        /\ Readable(disk, emission_file) /\ Readable(disk, component_file)
        /\ Broadcastable(Shape(disk[emission_file].rows), Shape(disk[component_file].rows))
        /\ \E c \in CPositions :
               disk[cs_file] = Subtract(disk[emission_file], disk[component_file], c)

(***************************************************************************)
(* Claims about the order of an estimate's steps (under Spec)              *)
(***************************************************************************)
\* C27: in an estimate the host's image lock is held only while the loaded
\* image is validated and the selection statistics are read; it is released
\* on every exit path (the three early returns and the normal path), and the
\* reads of the two files, the grid searches, the fit, the move of the slider
\* and the write and host load of the chained generate all run after the
\* release.
C27_LockOnlyWhileValidating ==
    last.op = "on_estimate" =>
        /\ Len(log) >= 2
        /\ log[1] = Locked
        /\ \E u \in 2..Len(log) :
               /\ log[u] = Unlocked
               /\ \A k \in 1..Len(log) : log[k].ev = "image_lock" => k \in {1, u}
               /\ \A k \in 2..(u - 1) : log[k].ev \in {"message", "get_selection_stats"}
               /\ \A k \in (u + 1)..Len(log) : log[k].ev # "get_selection_stats"
        /\ last.result \in {"Missing Image", "Invalid Image", "Invalid Region"} =>
               log[Len(log)] = Unlocked

\* C27's case: an estimate on its normal path, whose searches and whose
\* generate's load came after the release
C27_Witness ==
    /\ last = Done("on_estimate", "estimated, generated")
    /\ log[3] = Unlocked
    /\ AadRuns(log)
    /\ log[Len(log)] = Ev("load", CsName, 0, 1)

\* the places of a log where an event of the given kind stands
EventsAt(events, kind) == {k \in 1..Len(events) : events[k].ev = kind}

\* C28: a successful estimate is followed, in this order, by setting the c
\* slider to round(c * 10000) and then by exactly one generate, so that the
\* image generated uses the estimate rounded to four decimals (a half going
\* to the even neighbour); an estimate rejected by a validation step triggers
\* no generate.
C28_EstimateThenOneGenerate ==
    last.op = "on_estimate" =>
        IF last.result \in {"Missing Image", "Invalid Image", "Invalid Region",
                            "Mismatched Images"}
        THEN /\ EventsAt(log, "setValue") = {}
             /\ EventsAt(log, "writeto") = {}
             /\ EventsAt(log, "load") = {}
             /\ ~AadRuns(log)
        ELSE alive =>
             /\ Cardinality(EventsAt(log, "setValue")) = 1
             /\ Cardinality(EventsAt(log, "writeto")) = 1
             /\ LET k == CHOOSE m \in EventsAt(log, "setValue") : TRUE
                    w == CHOOSE m \in EventsAt(log, "writeto") : TRUE
                    v == log[k].num
                IN  /\ \A m \in EventsAt(log, "aad") : m < k
                    /\ k + 3 = w
                    /\ log[k + 1] = Ev("getdata", component_file, 0, 1)
                    /\ log[k + 2] = Ev("getdata", emission_file, 0, 1)
                    /\ \A m \in EventsAt(log, "load") : m = w + 1
                    /\ c_slider = v
                    /\ \E f \in SearchAndFit[<<disk[emission_file].rows,
                                               disk[component_file].rows,
                                               host_selection, StatsRead(log)[1]>>] :
                           LET c == Max2(0, Min2(10 * 10000, f.s0))
                           IN  /\ f.fit = "ok"
                               /\ Abs(10 * v - c) <= 5
                               /\ Abs(10 * v - c) = 5 => v % 2 = 0
                    /\ last.result = "estimated, generated" =>
                           /\ log[w].num = 1
                           /\ EventsAt(log, "load") = {w + 1}
                           /\ disk[CsName] = Subtract(disk[emission_file],
                                                      disk[component_file], v)

\* C28's case: an estimate whose c = 0.33345 lies half way between two
\* positions of the slider, and the generate that followed it
C28_Witness ==
    /\ last = Done("on_estimate", "estimated, generated")
    /\ SetValueArgs(log) = {3334}
    /\ disk[CsName] = Subtract(disk[emission_file], disk[component_file], 3334)

====
